---- MODULE Spec2Model ----
(***************************************************************************)
(* Model of the market-data pipeline of ai-hedge-fund:                     *)
(*   src/src/tools/api.py          adapters and unified fetchers           *)
(*   src/src/agents/state.py       AgentState reducers (merge_dicts, add)  *)
(*   src/src/agents/market_data.py market_data_agent                       *)
(*   src/src/agents/fundamentals.py, sentiment.py  scoring stages          *)
(*                                                                         *)
(* Python values are represented as follows.                               *)
(*   dict            function from key strings to values                   *)
(*   list            sequence                                              *)
(*   "YYYY-MM-DD"    record [y, m, d]; None / "" is NoDate                 *)
(*   float ratios    integers in hundredths (0.15 is 15)                   *)
(*   exception       record [names, cause]: the source names its message  *)
(*                   text contains and the upstream cause it carries       *)
(*   print(...)      a record appended to the diagnostic stream out        *)
(***************************************************************************)
EXTENDS Integers, Sequences, FiniteSets, TLC

VARIABLES
    state_data,      \* state["data"]: the dict object shared by all stages
    state_messages,  \* state["messages"]
    state_metadata,  \* state["metadata"]
    pc,              \* position of the pipeline / of market_data_agent
    depth,           \* number of times the body of market_data_agent was entered
    loc,             \* local variables of market_data_agent
    call,            \* the unified fetch call in progress (adapter invocation counts)
    ret,             \* last value returned by an adapter, per operation
    exc,             \* the exception being propagated / last caught
    out,             \* printed diagnostics, in order
    delta,           \* the value returned by the last stage, not yet merged
    ran,             \* stages whose body has started, in order
    msgs_before,     \* state["messages"] when the current stage was invoked
    init_messages,   \* state["messages"] the run was started with
    invoked,         \* adapter invocations so far, per source and operation
    sources,         \* the data_source of each execution of the stage body
    fetched,         \* operations fetched so far in the current body execution
    ma, mb, mc,      \* the dict objects passed to merge_dicts (MergeSpec)
    m0,              \* the contents of ma, mb, mc before any call (MergeSpec)
    mr,              \* the dicts returned by the calls of merge_dicts (MergeSpec)
    mstep,           \* number of merge_dicts calls made (MergeSpec)
    xs, ys,          \* the message lists passed to operator.add (AddSpec)
    xr,              \* the lists returned by the calls of operator.add (AddSpec)
    xstep,           \* number of operator.add calls made (AddSpec)
    sc_in,           \* the input handed to the scoring code (ScoreSpec)
    sc_out,          \* what the scoring code computed from it (ScoreSpec)
    sc_step,         \* scoring steps made (ScoreSpec)
    dt_in,           \* the start_date and end_date of data (DateSpec)
    dt_out,          \* the dates the stage resolved from them (DateSpec)
    dt_step,         \* date resolutions made (DateSpec)
    od_in,           \* the state left by the market-data stage (OrderSpec)
    od_out,          \* the states after the two scoring stages, per order (OrderSpec)
    od_step          \* orders of the scoring stages run so far (OrderSpec)

pipeVars == <<state_data, state_messages, state_metadata, pc, depth, loc, call,
              ret, exc, out, delta, ran, msgs_before, init_messages, invoked,
              sources, fetched>>
mergeVars == <<ma, mb, mc, m0, mr, mstep>>
addVars == <<xs, ys, xr, xstep>>
scoreVars == <<sc_in, sc_out, sc_step>>
dateVars == <<dt_in, dt_out, dt_step>>
orderVars == <<od_in, od_out, od_step>>
pureVars == <<addVars, scoreVars, dateVars, orderVars>>
vars == <<pipeVars, mergeVars, pureVars>>

----------------------------------------------------------------------------
(* Bounds of the model *)

MaxTrades == 1          \* longest insider-trade list an upstream reports
MaxInitMessages == 1    \* messages already in the state when the run starts
NumKeys == 2            \* keys available to the operands of merge_dicts
MaxListLen == 2         \* longest message list passed to operator.add
MaxScoredTrades == 3    \* longest insider-trade list handed to the scoring code

----------------------------------------------------------------------------
(* Python dicts *)

EmptyDict == [k \in {} |-> 0]

\* dict.get(key, default)
Get(d, k, default) == IF k \in DOMAIN d THEN d[k] ELSE default

\* d[k] = v on a dict object
SetItem(d, k, v) == [x \in DOMAIN d \cup {k} |-> IF x = k THEN v ELSE d[x]]

\* state.py lines 10-11: {**a, **b}
merge_dicts_left_wins(a, b) ==
    [k \in DOMAIN a \cup DOMAIN b |-> IF k \in DOMAIN a THEN a[k] ELSE b[k]]

merge_dicts_drop_left(a, b) == b

merge_dicts(a, b) ==
    [k \in DOMAIN a \cup DOMAIN b |-> IF k \in DOMAIN b THEN b[k] ELSE a[k]]

operator_add_reversed(a, b) == b \o a

\* operator.add on sequences (the messages reducer)
operator_add(a, b) == a \o b

----------------------------------------------------------------------------
(* Dates *)

NoDate == [y |-> 0, m |-> 0, d |-> 0]

IsLeap(y) == (y % 4 = 0 /\ y % 100 # 0) \/ y % 400 = 0

DaysInMonth(y, m) ==
    IF m = 2 THEN (IF IsLeap(y) THEN 29 ELSE 28)
    ELSE IF m \in {4, 6, 9, 11} THEN 30 ELSE 31

ValidDate(dt) == /\ dt.m \in 1..12
                 /\ dt.d >= 1
                 /\ dt.d <= DaysInMonth(dt.y, dt.m)

\* datetime.replace(year=, month=): raises ValueError when the day does not
\* exist in the target month
Replace(dt, y, m) == [y |-> y, m |-> m, d |-> dt.d]

ThreeMonthsBefore_same_year(end) ==
    IF end.m > 3 THEN Replace(end, end.y, end.m - 3)
    ELSE Replace(end, end.y, end.m + 9)

\* market_data.py lines 28-31
ThreeMonthsBefore(end) ==
    IF end.m > 3 THEN Replace(end, end.y, end.m - 3)
    ELSE Replace(end, end.y - 1, end.m + 9)

\* market_data.py lines 25-33: the dates the stage works with; ok is FALSE
\* when datetime.replace raises ValueError
ResolveDates(data, now) ==
    LET end_date == IF data["end_date"] # NoDate THEN data["end_date"] ELSE now
        start_date == IF data["start_date"] = NoDate
                      THEN ThreeMonthsBefore(end_date)
                      ELSE data["start_date"]
    IN [end_date |-> end_date, start_date |-> start_date,
        ok |-> ValidDate(start_date)]

EndDates == {[y |-> 2024, m |-> 1, d |-> 15], [y |-> 2024, m |-> 5, d |-> 31]}
GivenStartDates == {[y |-> 2023, m |-> 1, d |-> 15]}
NowDates == {[y |-> 2024, m |-> 12, d |-> 15]}

----------------------------------------------------------------------------
(* Exceptions and printed diagnostics *)

YAHOO == "yahoo"
FD == "financialdatasets"

NoExc == [names |-> {}, cause |-> ""]

\* api.py line 48 (and 116, 179, 215, 283):
\* Exception(f"Error fetching data: {status_code} - {text}")
FdError(status) == [names |-> {}, cause |-> status]

\* api.py line 29 (and 97, 206): Exception(f"Error fetching ... from Yahoo Finance: {e}")
YahooError(cause) == [names |-> {YAHOO}, cause |-> cause]

\* api.py line 65: print(f"Financial Datasets API error: {e}. Falling back to Yahoo Finance...")
FallbackNote(e) == [tag |-> "api_fallback", names |-> {FD} \cup e.names, cause |-> e.cause]

\* api.py line 161 / 262: print(f"Warning: Error fetching ... from Yahoo Finance: {e}")
WarningNote(cause) == [tag |-> "warning", names |-> {YAHOO}, cause |-> cause]

\* market_data.py line 97-98: print(f"Error in market_data_agent: {e}")
StageErrorNote(e) == [tag |-> "stage_error", names |-> e.names, cause |-> e.cause]

\* market_data.py line 102: print("Attempting to fall back to Yahoo Finance...")
StageFallbackNote == [tag |-> "stage_fallback", names |-> {YAHOO}, cause |-> ""]

\* market_data.py line 89: print(f"Market data retrieved successfully from {data_source}")
RetrievedNote(src) == [tag |-> "retrieved", names |-> {src}, cause |-> ""]

\* Outcome of one adapter invocation: a return value or a raised exception,
\* together with what the adapter printed.
Return(v) == [ok |-> TRUE, val |-> v, exc |-> NoExc, warn |-> <<>>]
Raise(e, zero) == [ok |-> FALSE, val |-> zero, exc |-> e, warn |-> <<>>]
ReturnWarned(v, w) == [ok |-> TRUE, val |-> v, exc |-> NoExc, warn |-> <<w>>]

----------------------------------------------------------------------------
(* Upstream responses *)

\* JSON values that are not numbers, where the code expects a number
None == -1000001        \* null
NonNumeric == -1000002  \* a string

FdFailStatus == {"500"}
YfCauses == {"yf_timeout"}

\* An HTTP response of the Financial Datasets API: a failure status, or 200
\* with a JSON body in which the expected key is absent or holds a payload.
FdResponses(payloads, zero) ==
    {[status |-> s, has_key |-> FALSE, payload |-> zero] : s \in FdFailStatus}
    \cup {[status |-> "200", has_key |-> FALSE, payload |-> zero]}
    \cup {[status |-> "200", has_key |-> TRUE, payload |-> p] : p \in payloads}

\* What a yfinance call does: raises, or yields a value.
YfResponses(values, zero) ==
    {[raises |-> TRUE, cause |-> c, value |-> zero] : c \in YfCauses}
    \cup {[raises |-> FALSE, cause |-> "", value |-> v] : v \in values}

Bar1 == [time |-> [y |-> 2024, m |-> 1, d |-> 2], open |-> 100, high |-> 110,
         low |-> 90, close |-> 105, volume |-> 1000]
PriceRows == {<<>>, <<Bar1>>}

\* Metrics records as the Financial Datasets API reports them (hundredths).
MetricsStrong ==
    [return_on_equity |-> 30, net_margin |-> 25, operating_margin |-> 30,
     revenue_growth |-> 15, earnings_growth |-> 20, book_value_growth |-> 12,
     current_ratio |-> 200, debt_to_equity |-> 30,
     free_cash_flow_per_share |-> 500, earnings_per_share |-> 400,
     price_to_earnings_ratio |-> 2000, price_to_book_ratio |-> 200,
     price_to_sales_ratio |-> 300]
MetricsWeak ==
    [return_on_equity |-> 5, net_margin |-> 3, operating_margin |-> 4,
     revenue_growth |-> 0, earnings_growth |-> 0, book_value_growth |-> 0,
     current_ratio |-> 80, debt_to_equity |-> 250,
     free_cash_flow_per_share |-> 10, earnings_per_share |-> 400,
     price_to_earnings_ratio |-> 6000, price_to_book_ratio |-> 900,
     price_to_sales_ratio |-> 1200]
\* a record in which the upstream left fields out
MetricsPartial ==
    [return_on_equity |-> 30, net_margin |-> 25, operating_margin |-> 30]
\* a record in which the upstream reports a field as null
MetricsNull == [MetricsStrong EXCEPT !["net_margin"] = None]
FdMetricsPayloads == {<<>>, <<MetricsStrong>>, <<MetricsPartial>>, <<MetricsNull>>}

\* yfinance Ticker.info dicts
InfoFull ==
    [returnOnEquity |-> 30, profitMargins |-> 25, operatingMargins |-> 30,
     revenueGrowth |-> 15, earningsGrowth |-> 20, currentRatio |-> 200,
     debtToEquity |-> 30, freeCashflow |-> 1000, sharesOutstanding |-> 200,
     trailingEps |-> 400, trailingPE |-> 2000, priceToBook |-> 200,
     priceToSalesTrailing12Months |-> 300, marketCap |-> 1000]
InfoSparse == [trailingPE |-> 6000, freeCashflow |-> 50]
YfInfos == {InfoFull, InfoSparse}

ShareCounts == {100, -50}
Trade(n) == [transaction_shares |-> n]
TradeLists ==
    UNION {[1..n -> {Trade(s) : s \in ShareCounts}] : n \in 0..MaxTrades}

FdLineItemPayloads ==
    {<<>>, <<[free_cash_flow |-> 100]>>, <<[free_cash_flow |-> NonNumeric]>>}
FdCompanyFacts == {EmptyDict, [market_cap |-> 1000]}

----------------------------------------------------------------------------
(* Data source adapters (api.py) *)

Truthy(n) == n # 0 /\ n # None

get_prices_yf_swallows(u) ==
    IF u.raises THEN ReturnWarned(<<>>, WarningNote(u.cause))
    ELSE Return(u.value)

\* api.py lines 9-29
get_prices_yf(u) ==
    IF u.raises THEN Raise(YahooError(u.cause), <<>>)
    ELSE Return(u.value)

\* api.py lines 31-50
get_prices_fd(r) ==
    IF r.status # "200" THEN Raise(FdError(r.status), <<>>)
    ELSE Return(IF r.has_key THEN r.payload ELSE <<>>)

\* api.py lines 80-94: the record built from Ticker.info
YfMetricsRecord(info) ==
    [return_on_equity |-> Get(info, "returnOnEquity", 0),
     net_margin |-> Get(info, "profitMargins", 0),
     operating_margin |-> Get(info, "operatingMargins", 0),
     revenue_growth |-> Get(info, "revenueGrowth", 0),
     earnings_growth |-> Get(info, "earningsGrowth", 0),
     book_value_growth |-> 0,
     current_ratio |-> Get(info, "currentRatio", 0),
     debt_to_equity |-> IF Truthy(Get(info, "debtToEquity", 0))
                        THEN Get(info, "debtToEquity", 0) ELSE 0,
     free_cash_flow_per_share |->
         IF Truthy(Get(info, "sharesOutstanding", 0))
         THEN (Get(info, "freeCashflow", 0) * 100) \div Get(info, "sharesOutstanding", 1)
         ELSE 0,
     earnings_per_share |-> Get(info, "trailingEps", 0),
     price_to_earnings_ratio |-> Get(info, "trailingPE", 0),
     price_to_book_ratio |-> Get(info, "priceToBook", 0),
     price_to_sales_ratio |-> Get(info, "priceToSalesTrailing12Months", 0)]

\* api.py lines 69-97
get_financial_metrics_yf(u) ==
    IF u.raises THEN Raise(YahooError(u.cause), <<>>)
    ELSE Return(<<YfMetricsRecord(u.value)>>)

\* api.py lines 99-118
get_financial_metrics_fd(r) ==
    IF r.status # "200" THEN Raise(FdError(r.status), <<>>)
    ELSE Return(IF r.has_key THEN r.payload ELSE <<>>)

Min(a, b) == IF a < b THEN a ELSE b

\* api.py lines 138-162: every exception is swallowed into [] with a warning.
\* u.row_cause is the exception (if any) raised while a row is converted
\* (float(...), trade.index.strftime(...)).
get_insider_trades_yf(u, limit) ==
    IF u.raises THEN ReturnWarned(<<>>, WarningNote(u.cause))
    ELSE IF u.value = <<>> THEN Return(<<>>)
    ELSE IF u.row_cause # "" THEN ReturnWarned(<<>>, WarningNote(u.row_cause))
    ELSE Return(SubSeq(u.value, 1, Min(Len(u.value), limit)))

get_insider_trades_fd_empty_fails(r) ==
    IF r.status # "200" THEN Raise(FdError(r.status), <<>>)
    ELSE IF ~r.has_key \/ r.payload = <<>> THEN Raise(FdError(r.status), <<>>)
    ELSE Return(r.payload)

\* api.py lines 164-181
get_insider_trades_fd(r) ==
    IF r.status # "200" THEN Raise(FdError(r.status), <<>>)
    ELSE Return(IF r.has_key THEN r.payload ELSE <<>>)

\* api.py lines 200-206
get_market_cap_yf(u) ==
    IF u.raises THEN Raise(YahooError(u.cause), 0)
    ELSE Return(Get(u.value, "marketCap", 0))

\* api.py lines 208-218
get_market_cap_fd(r) ==
    IF r.status # "200" THEN Raise(FdError(r.status), 0)
    ELSE Return(Get(IF r.has_key THEN r.payload ELSE EmptyDict, "market_cap", 0))

Abs(n) == IF n < 0 THEN -n ELSE n

\* api.py lines 235-263: every exception is swallowed into the zero record.
\* u.value is the financials frame: empty, or with / without the two rows.
search_line_items_yf(u, line_items) ==
    IF u.raises THEN ReturnWarned(<<[free_cash_flow |-> 0]>>, WarningNote(u.cause))
    ELSE IF u.value.empty THEN Return(<<[free_cash_flow |-> 0]>>)
    ELSE IF "free_cash_flow" \in line_items
         THEN Return(<<[free_cash_flow |->
                          IF u.value.has_rows
                          THEN u.value.ocf - Abs(u.value.capex)
                          ELSE Get(u.value.info, "freeCashflow", 0)]>>)
         ELSE Return(<<EmptyDict>>)

\* api.py lines 265-285
search_line_items_fd(r) ==
    IF r.status # "200" THEN Raise(FdError(r.status), <<>>)
    ELSE Return(IF r.has_key THEN r.payload ELSE <<>>)

\* What each adapter can produce, over the upstream responses of the model.
YfInsiderResponses ==
    {[raises |-> TRUE, cause |-> c, value |-> <<>>, row_cause |-> ""] : c \in YfCauses}
    \cup {[raises |-> FALSE, cause |-> "", value |-> v, row_cause |-> rc] :
            v \in TradeLists, rc \in {"", "AttributeError"}}

NoFinancials == [empty |-> TRUE, has_rows |-> FALSE, ocf |-> 0, capex |-> 0, info |-> InfoSparse]
YfFinancials ==
    {NoFinancials,
     [empty |-> FALSE, has_rows |-> TRUE, ocf |-> 300, capex |-> -100, info |-> InfoFull],
     [empty |-> FALSE, has_rows |-> FALSE, ocf |-> 0, capex |-> 0, info |-> InfoSparse]}

PricesYfOutcomes == {get_prices_yf(u) : u \in YfResponses(PriceRows, <<>>)}
PricesFdOutcomes == {get_prices_fd(r) : r \in FdResponses(PriceRows, <<>>)}
MetricsYfOutcomes == {get_financial_metrics_yf(u) : u \in YfResponses(YfInfos, InfoSparse)}
MetricsFdOutcomes == {get_financial_metrics_fd(r) : r \in FdResponses(FdMetricsPayloads, <<>>)}
InsiderYfOutcomes == {get_insider_trades_yf(u, 5) : u \in YfInsiderResponses}
InsiderFdOutcomes == {get_insider_trades_fd(r) : r \in FdResponses(TradeLists, <<>>)}
MarketCapYfOutcomes == {get_market_cap_yf(u) : u \in YfResponses(YfInfos, InfoSparse)}
MarketCapFdOutcomes == {get_market_cap_fd(r) : r \in FdResponses(FdCompanyFacts, EmptyDict)}
LineItemsYfOutcomes ==
    {search_line_items_yf(u, {"free_cash_flow"}) : u \in YfResponses(YfFinancials, NoFinancials)}
LineItemsFdOutcomes == {search_line_items_fd(r) : r \in FdResponses(FdLineItemPayloads, <<>>)}

----------------------------------------------------------------------------
(* Scoring stages (fundamentals.py, sentiment.py) *)

Count(seq, x) == Cardinality({i \in 1..Len(seq) : seq[i] = x})

Max(a, b) == IF a > b THEN a ELSE b

\* round(100 * num / den) as Python rounds (half to even), den > 0, num >= 0
PyRoundPercent(num, den) ==
    LET q == (100 * num) \div den
        r == (100 * num) % den
    IN IF 2 * r > den THEN q + 1
       ELSE IF 2 * r < den THEN q
       ELSE IF q % 2 = 0 THEN q ELSE q + 1

OverallSignal_tie_bullish(bullish, bearish) ==
    IF bullish >= bearish THEN "bullish" ELSE "bearish"

\* fundamentals.py lines 221-226, sentiment.py lines 82-87
OverallSignal(bullish, bearish) ==
    IF bullish > bearish THEN "bullish"
    ELSE IF bearish > bullish THEN "bearish"
    ELSE "neutral"

\* fundamentals.py line 141 (156, 171, 190)
SubSignal(score) ==
    IF score >= 2 THEN "bullish" ELSE IF score = 0 THEN "bearish" ELSE "neutral"

B2N(b) == IF b THEN 1 ELSE 0

RECURSIVE Grow(_, _, _)
\* cash flow after i years of growth g (hundredths): cf * (1 + g) ** i
Grow(cf, g, i) == IF i = 0 THEN cf ELSE Grow((cf * (100 + g)) \div 100, g, i - 1)

RECURSIVE Discount(_, _, _)
\* x / (1 + rate) ** n, rate in hundredths
Discount(x, rate, n) ==
    IF n = 0 THEN x ELSE Discount((x * 100) \div (100 + rate), rate, n - 1)

RECURSIVE SumPV(_, _, _, _)
SumPV(cf0, g, rate, i) ==
    IF i < 0 THEN 0
    ELSE Discount(Grow(cf0, g, i), rate, i + 1) + SumPV(cf0, g, rate, i - 1)

\* fundamentals.py lines 68-101, in thousandths of the cash-flow unit
calculate_intrinsic_value(free_cash_flow, growth_rate, discount_rate, terminal_growth_rate, num_years) ==
    IF ~Truthy(free_cash_flow) THEN 0
    ELSE LET cf0 == free_cash_flow * 1000
             last == Grow(cf0, growth_rate, num_years - 1)
             terminal_value ==
                 (last * (100 + terminal_growth_rate))
                     \div (discount_rate - terminal_growth_rate)
         IN SumPV(cf0, growth_rate, discount_rate, num_years - 1)
            + Discount(terminal_value, discount_rate, num_years)

RequiredMetricKeys ==
    {"return_on_equity", "net_margin", "operating_margin", "revenue_growth",
     "earnings_growth", "current_ratio", "debt_to_equity",
     "free_cash_flow_per_share", "earnings_per_share",
     "price_to_earnings_ratio", "price_to_book_ratio", "price_to_sales_ratio"}

\* fundamentals.py lines 134-187: the accesses to metrics in program order.
\* "use" is metrics[k] compared or multiplied at once, "get" is
\* metrics.get(k, 0) compared at once, "read" is metrics[k] bound to a
\* variable, "cmp" is the later comparison of that variable.
MetricAccesses ==
    <<[key |-> "return_on_equity", op |-> "use"],
      [key |-> "net_margin", op |-> "use"],
      [key |-> "operating_margin", op |-> "use"],
      [key |-> "revenue_growth", op |-> "use"],
      [key |-> "earnings_growth", op |-> "use"],
      [key |-> "book_value_growth", op |-> "get"],
      [key |-> "current_ratio", op |-> "use"],
      [key |-> "debt_to_equity", op |-> "use"],
      [key |-> "free_cash_flow_per_share", op |-> "read"],
      [key |-> "earnings_per_share", op |-> "use"],
      [key |-> "free_cash_flow_per_share", op |-> "cmp"],
      [key |-> "price_to_earnings_ratio", op |-> "read"],
      [key |-> "price_to_book_ratio", op |-> "read"],
      [key |-> "price_to_sales_ratio", op |-> "read"],
      [key |-> "price_to_earnings_ratio", op |-> "cmp"],
      [key |-> "price_to_book_ratio", op |-> "cmp"],
      [key |-> "price_to_sales_ratio", op |-> "cmp"]>>

\* the exception one access raises: KeyError for metrics[k] on an absent
\* key, TypeError for a comparison or product with None
AccessError(metrics, a) ==
    IF a.op \in {"use", "read"} /\ a.key \notin DOMAIN metrics THEN "KeyError"
    ELSE IF a.op \in {"use", "get", "cmp"} /\ Get(metrics, a.key, 0) = None
    THEN "TypeError"
    ELSE ""

\* the first exception the ratio code raises on metrics, "" when none
RatioError(metrics) ==
    LET bad == {i \in 1..Len(MetricAccesses) :
                   AccessError(metrics, MetricAccesses[i]) # ""}
    IN IF bad = {} THEN ""
       ELSE AccessError(metrics,
                MetricAccesses[CHOOSE i \in bad : \A j \in bad : i <= j])

\* fundamentals.py lines 87-101 raise TypeError when free_cash_flow is a
\* truthy value that is not a number
IntrinsicValueRaises(free_cash_flow) ==
    Truthy(free_cash_flow) /\ free_cash_flow = NonNumeric

\* fundamentals.py lines 197-209: the value, 0 after a caught exception
IntrinsicValue(financial_line_item, growth_rate) ==
    LET free_cash_flow == Get(financial_line_item, "free_cash_flow", 0)
    IN IF IntrinsicValueRaises(free_cash_flow) THEN 0
       ELSE calculate_intrinsic_value(free_cash_flow, growth_rate, 10, 3, 5)

\* fundamentals.py lines 129-215: the five sub-signals
FundamentalSignals(metrics, financial_line_item, market_cap) ==
    LET profitability == B2N(metrics["return_on_equity"] > 15)
                         + B2N(metrics["net_margin"] > 20)
                         + B2N(metrics["operating_margin"] > 15)
        growth == B2N(metrics["revenue_growth"] > 10)
                  + B2N(metrics["earnings_growth"] > 10)
                  + B2N(Get(metrics, "book_value_growth", 0) > 10)
        health == B2N(metrics["current_ratio"] > 150)
                  + B2N(metrics["debt_to_equity"] < 50)
                  + B2N(10 * metrics["free_cash_flow_per_share"]
                          > 8 * metrics["earnings_per_share"])
        price == B2N(metrics["price_to_earnings_ratio"] < 2500)
                 + B2N(metrics["price_to_book_ratio"] < 300)
                 + B2N(metrics["price_to_sales_ratio"] < 500)
        intrinsic_value ==
            IntrinsicValue(financial_line_item, metrics["earnings_growth"])
    IN <<SubSignal(profitability), SubSignal(growth), SubSignal(health),
         SubSignal(price),
         IF market_cap * 1000 < intrinsic_value THEN "bullish" ELSE "bearish">>

FundamentalsConfidence_bullish_share(signals) ==
    [num |-> Count(signals, "bullish"), den |-> Len(signals)]

\* fundamentals.py lines 229-230: confidence, as the fraction num / den
FundamentalsConfidence(signals) ==
    [num |-> Max(Count(signals, "bullish"), Count(signals, "bearish")),
     den |-> Len(signals)]

\* fundamentals.py lines 217-247: the message the stage creates
FundamentalsMessage(signals) ==
    LET bullish == Count(signals, "bullish")
        bearish == Count(signals, "bearish")
        confidence == FundamentalsConfidence(signals)
    IN [name |-> "fundamentals_agent",
        signal |-> OverallSignal(bullish, bearish),
        confidence |-> PyRoundPercent(confidence.num, confidence.den),
        signals |-> signals]

RECURSIVE SentimentSignals_counts_zero(_)
SentimentSignals_counts_zero(insider_trades) ==
    IF insider_trades = <<>> THEN <<>>
    ELSE LET shares == Get(Head(insider_trades), "transaction_shares", 0)
         IN <<IF shares < 0 THEN "bearish" ELSE "bullish">>
                \o SentimentSignals_counts_zero(Tail(insider_trades))

RECURSIVE SentimentSignals(_)
\* sentiment.py lines 63-73
SentimentSignals(insider_trades) ==
    IF insider_trades = <<>> THEN <<>>
    ELSE LET shares == Get(Head(insider_trades), "transaction_shares", 0)
             rest == SentimentSignals(Tail(insider_trades))
         IN IF Truthy(shares)
            THEN <<IF shares < 0 THEN "bearish" ELSE "bullish">> \o rest
            ELSE rest

\* sentiment.py lines 89 and 95: confidence, as the fraction num / den
SentimentConfidence(signals) ==
    IF signals # <<>>
    THEN IF Len(signals) > 0
         THEN [num |-> Max(Count(signals, "bullish"), Count(signals, "bearish")),
               den |-> Len(signals)]
         ELSE [num |-> 1, den |-> 2]
    ELSE [num |-> 1, den |-> 2]

\* sentiment.py lines 75-109
SentimentMessage(signals) ==
    LET bullish == Count(signals, "bullish")
        bearish == Count(signals, "bearish")
        confidence == SentimentConfidence(signals)
    IN [name |-> "sentiment_agent",
        signal |-> IF signals # <<>> THEN OverallSignal(bullish, bearish)
                   ELSE "neutral",
        confidence |-> PyRoundPercent(confidence.num, confidence.den),
        signals |-> signals]

sentiment_agent_clears_line_items(data) ==
    [messages |-> <<SentimentMessage(SentimentSignals(data["insider_trades"]))>>,
     data |-> [data EXCEPT !["financial_line_items"] = <<>>]]

\* sentiment.py lines 56-123: the value the stage returns
sentiment_agent(data) ==
    [messages |-> <<SentimentMessage(SentimentSignals(data["insider_trades"]))>>,
     data |-> data]

UserMessage == [name |-> "user", signal |-> "", confidence |-> 0, signals |-> <<>>]

----------------------------------------------------------------------------
(* Unified fetchers with fallback (api.py) *)

Ops == {"prices", "financial_metrics", "insider_trades", "market_cap",
        "financial_line_items"}

NoValues == [prices |-> <<>>, financial_metrics |-> <<>>, insider_trades |-> <<>>,
             market_cap |-> 0, financial_line_items |-> <<>>]

NoArgs == [ticker |-> "", start_date |-> NoDate, end_date |-> NoDate, limit |-> 0]

CallIdle == [op |-> "", src |-> "", fd |-> 0, yf |-> 0,
             fd_failed |-> FALSE, yf_failed |-> FALSE, result |-> "none",
             args |-> NoArgs, fallback_args |-> NoArgs]

\* market_data.py lines 37-74: the arguments of each fetch (absent ones blank)
Args(op, data, l) ==
    IF op = "prices"
    THEN [ticker |-> data["ticker"], start_date |-> l.start_date,
          end_date |-> l.end_date, limit |-> 0]
    ELSE IF op = "financial_metrics"
    THEN [ticker |-> data["ticker"], start_date |-> NoDate,
          end_date |-> l.end_date, limit |-> 1]
    ELSE IF op = "insider_trades"
    THEN [ticker |-> data["ticker"], start_date |-> NoDate,
          end_date |-> l.end_date, limit |-> 5]
    ELSE IF op = "market_cap"
    THEN [ticker |-> data["ticker"], start_date |-> NoDate,
          end_date |-> NoDate, limit |-> 0]
    ELSE [ticker |-> data["ticker"], start_date |-> NoDate,
          end_date |-> NoDate, limit |-> 1]

\* an adapter invocation: which source's adapter ran, and its outcome
By(src, outcomes) == {[by |-> src, res |-> o] : o \in outcomes}

\* the upstream call inside the adapter failed (raised, or swallowed with a warning)
Failed(o) == ~o.ok \/ o.warn # <<>>

\* try block, api.py lines 60-62 (129-131, 191-193, 226-228, 296-298)
Selected(data_source, yf, fd) ==
    IF data_source = YAHOO THEN By(YAHOO, yf) ELSE By(FD, fd)

Fallback_retries_secondary(yf, fd) == By(FD, fd)

\* except block, api.py line 66 (135, 197, 232, 302): the Yahoo adapter
Fallback(yf, fd) == By(YAHOO, yf)

Invoke(inv, src, op) == [inv EXCEPT ![src][op] = @ + 1]

\* try block of a unified fetcher and, when the adapter raises, the start of
\* its except block (api.py lines 59-65 and 67): has_default tells the
\* fetchers that return a default where the others re-raise (lines 198, 303).
TryBlock(op, x, next, except_pc, has_default, default) ==
    LET o == x.res
        c == [op |-> op, src |-> loc.data_source,
              fd |-> B2N(x.by = FD), yf |-> B2N(x.by = YAHOO),
              fd_failed |-> x.by = FD /\ Failed(o),
              yf_failed |-> x.by = YAHOO /\ Failed(o),
              result |-> "none",
              args |-> Args(op, state_data, loc), fallback_args |-> NoArgs]
    IN /\ invoked' = Invoke(invoked, x.by, op)
       /\ fetched' = IF o.ok \/ (loc.data_source # FD /\ has_default)
                     THEN fetched \cup {op} ELSE fetched
       /\ IF o.ok
          THEN /\ loc' = [loc EXCEPT ![op] = o.val]
               /\ ret' = [ret EXCEPT ![op] = o.val]
               /\ call' = [c EXCEPT !.result = "returned"]
               /\ out' = out \o o.warn
               /\ exc' = exc
               /\ pc' = next
          ELSE IF loc.data_source = FD
          THEN /\ out' = out \o <<FallbackNote(o.exc)>>
               /\ exc' = o.exc
               /\ call' = c
               /\ pc' = except_pc
               /\ UNCHANGED <<loc, ret>>
          ELSE IF has_default
          THEN /\ loc' = [loc EXCEPT ![op] = default]
               /\ call' = [c EXCEPT !.result = "returned"]
               /\ pc' = next
               /\ UNCHANGED <<out, exc, ret>>
          ELSE /\ exc' = o.exc
               /\ call' = [c EXCEPT !.result = "raised"]
               /\ pc' = "md_except"
               /\ UNCHANGED <<out, loc, ret>>

\* the adapter call inside the except block (api.py line 66)
ExceptBlock(op, x, next) ==
    LET o == x.res
    IN /\ invoked' = Invoke(invoked, x.by, op)
       /\ call' = [call EXCEPT !.fd = @ + B2N(x.by = FD),
                               !.yf = @ + B2N(x.by = YAHOO),
                               !.yf_failed = x.by = YAHOO /\ Failed(o),
                               !.result = IF o.ok THEN "returned" ELSE "raised",
                               !.fallback_args = call.args]
       /\ fetched' = IF o.ok THEN fetched \cup {op} ELSE fetched
       /\ out' = out \o o.warn
       /\ IF o.ok
          THEN /\ loc' = [loc EXCEPT ![op] = o.val]
               /\ ret' = [ret EXCEPT ![op] = o.val]
               /\ exc' = NoExc
               /\ pc' = next
          ELSE /\ exc' = o.exc
               /\ pc' = "md_except"
               /\ UNCHANGED <<loc, ret>>

stageFrame == <<state_data, state_messages, state_metadata, depth, delta, ran,
                msgs_before, init_messages, sources, mergeVars, pureVars>>

\* api.py lines 52-67
get_prices ==
    /\ pc = "prices"
    /\ \E x \in Selected(loc.data_source, PricesYfOutcomes, PricesFdOutcomes) :
           TryBlock("prices", x, "financial_metrics", "prices_except", FALSE, <<>>)
    /\ UNCHANGED stageFrame

get_prices_fallback ==
    /\ pc = "prices_except"
    /\ \E x \in Fallback(PricesYfOutcomes, PricesFdOutcomes) :
           ExceptBlock("prices", x, "financial_metrics")
    /\ UNCHANGED stageFrame

\* api.py lines 120-136
get_financial_metrics ==
    /\ pc = "financial_metrics"
    /\ \E x \in Selected(loc.data_source, MetricsYfOutcomes, MetricsFdOutcomes) :
           TryBlock("financial_metrics", x, "insider_trades",
                    "financial_metrics_except", FALSE, <<>>)
    /\ UNCHANGED stageFrame

get_financial_metrics_fallback ==
    /\ pc = "financial_metrics_except"
    /\ \E x \in Fallback(MetricsYfOutcomes, MetricsFdOutcomes) :
           ExceptBlock("financial_metrics", x, "insider_trades")
    /\ UNCHANGED stageFrame

\* api.py lines 183-198
get_insider_trades ==
    /\ pc = "insider_trades"
    /\ \E x \in Selected(loc.data_source, InsiderYfOutcomes, InsiderFdOutcomes) :
           TryBlock("insider_trades", x, "market_cap", "insider_trades_except",
                    TRUE, <<>>)
    /\ UNCHANGED stageFrame

get_insider_trades_fallback ==
    /\ pc = "insider_trades_except"
    /\ \E x \in Fallback(InsiderYfOutcomes, InsiderFdOutcomes) :
           ExceptBlock("insider_trades", x, "market_cap")
    /\ UNCHANGED stageFrame

\* api.py lines 220-233
get_market_cap ==
    /\ pc = "market_cap"
    /\ \E x \in Selected(loc.data_source, MarketCapYfOutcomes, MarketCapFdOutcomes) :
           TryBlock("market_cap", x, "financial_line_items", "market_cap_except",
                    FALSE, 0)
    /\ UNCHANGED stageFrame

get_market_cap_fallback ==
    /\ pc = "market_cap_except"
    /\ \E x \in Fallback(MarketCapYfOutcomes, MarketCapFdOutcomes) :
           ExceptBlock("market_cap", x, "financial_line_items")
    /\ UNCHANGED stageFrame

\* api.py lines 287-303
search_line_items ==
    /\ pc = "financial_line_items"
    /\ \E x \in Selected(loc.data_source, LineItemsYfOutcomes, LineItemsFdOutcomes) :
           TryBlock("financial_line_items", x, "md_return",
                    "financial_line_items_except", TRUE, <<[free_cash_flow |-> 0]>>)
    /\ UNCHANGED stageFrame

search_line_items_fallback ==
    /\ pc = "financial_line_items_except"
    /\ \E x \in Fallback(LineItemsYfOutcomes, LineItemsFdOutcomes) :
           ExceptBlock("financial_line_items", x, "md_return")
    /\ UNCHANGED stageFrame

----------------------------------------------------------------------------
(* market_data_agent (market_data.py) *)

NoDelta == [messages |-> <<>>, data |-> EmptyDict]

LocInit == [data_source |-> "", start_date |-> NoDate, end_date |-> NoDate,
            prices |-> <<>>, financial_metrics |-> <<>>, insider_trades |-> <<>>,
            market_cap |-> 0, financial_line_items |-> <<>>]

\* fundamentals.py line 208: print(f"\\nDebug: Error calculating intrinsic value: {e}")
DebugNote(cause) == [tag |-> "debug", names |-> {}, cause |-> cause]

ValueError == [names |-> {}, cause |-> "ValueError"]
IndexError == [names |-> {}, cause |-> "IndexError"]
KeyError == [names |-> {}, cause |-> "KeyError"]
TypeError == [names |-> {}, cause |-> "TypeError"]

pipeFrame == <<state_metadata, init_messages, mergeVars, pureVars>>
ghosts == <<sources, fetched>>

\* market_data.py lines 16-33: entry, data source and default dates.  The
\* date arithmetic is outside the try block: a ValueError leaves the stage.
MarketDataEnter ==
    /\ pc = "market_data"
    /\ depth' = depth + 1
    /\ ran' = IF depth = 0 THEN Append(ran, "market_data") ELSE ran
    /\ msgs_before' = IF depth = 0 THEN state_messages ELSE msgs_before
    /\ \E now \in NowDates :
         LET data == state_data
             data_source == Get(data, "data_source", YAHOO)
             dates == ResolveDates(data, now)
         IN IF dates.ok
            THEN /\ loc' = [LocInit EXCEPT !.data_source = data_source,
                                           !.start_date = dates.start_date,
                                           !.end_date = dates.end_date]
                 /\ pc' = "prices"
                 /\ exc' = NoExc
                 /\ sources' = Append(sources, data_source)
            ELSE /\ exc' = ValueError
                 /\ pc' = "aborted"
                 /\ loc' = loc
                 /\ sources' = Append(sources, data_source)
    /\ fetched' = {}
    /\ UNCHANGED <<state_data, state_messages, call, ret, out, delta, invoked, pipeFrame>>

UpdatedData_only_new(data, l) ==
    [k \in {"prices", "start_date", "end_date", "financial_metrics",
            "insider_trades", "market_cap", "financial_line_items"} |-> l[k]]

UpdatedData_no_line_items(data, l) ==
    LET new == {"prices", "start_date", "end_date", "financial_metrics",
                "insider_trades", "market_cap"}
    IN [k \in DOMAIN data \cup new |-> IF k \in new THEN l[k] ELSE data[k]]

\* market_data.py lines 77-86: {**data, "prices": prices, ...}
UpdatedData(data, l) ==
    LET new == {"prices", "start_date", "end_date", "financial_metrics",
                "insider_trades", "market_cap", "financial_line_items"}
    IN [k \in DOMAIN data \cup new |-> IF k \in new THEN l[k] ELSE data[k]]

\* market_data.py line 92: "messages": messages
ReturnedMessages(messages) == messages

\* market_data.py lines 76-94
MarketDataReturn ==
    /\ pc = "md_return"
    /\ out' = Append(out, RetrievedNote(loc.data_source))
    /\ delta' = [messages |-> ReturnedMessages(state_messages),
                 data |-> UpdatedData(state_data, loc)]
    /\ pc' = "merge"
    /\ UNCHANGED <<state_data, state_messages, depth, loc, call, ret, exc, ran,
                   msgs_before, invoked, ghosts, pipeFrame>>

AfterStageError_swallow(data_source) == "md_return"

AfterStageError_loop(data_source) == "market_data"

\* market_data.py lines 101-107: recurse on the secondary source, else raise
AfterStageError(data_source) ==
    IF data_source = FD THEN "market_data" ELSE "aborted"

SwitchSource_keeps_secondary(data) == data

\* market_data.py line 103: data["data_source"] = "yahoo", written to the
\* data of the state the stage was called with
SwitchSource(data) == SetItem(data, "data_source", YAHOO)

\* market_data.py lines 96-107
MarketDataExcept ==
    /\ pc = "md_except"
    /\ out' = out \o <<StageErrorNote(exc)>>
                  \o (IF loc.data_source = FD THEN <<StageFallbackNote>> ELSE <<>>)
    /\ state_data' = IF loc.data_source = FD
                     THEN SwitchSource(state_data)
                     ELSE state_data
    /\ pc' = AfterStageError(loc.data_source)
    /\ UNCHANGED <<state_messages, depth, loc, call, ret, exc, delta, ran,
                   msgs_before, invoked, ghosts, pipeFrame>>

----------------------------------------------------------------------------
(* fundamentals_agent, sentiment_agent *)

StageRaise(e) == [ok |-> FALSE, exc |-> e, delta |-> NoDelta, printed |-> <<>>]

\* fundamentals.py lines 103-260: what a call of the stage does, either a
\* raised exception or the returned value with the lines printed
fundamentals_agent(data) ==
    IF data["financial_metrics"] = <<>> \/ data["financial_line_items"] = <<>>
    THEN StageRaise(IndexError)
    ELSE LET metrics == data["financial_metrics"][1]
             financial_line_item == data["financial_line_items"][1]
             free_cash_flow == Get(financial_line_item, "free_cash_flow", 0)
         IN IF RatioError(metrics) = "KeyError" THEN StageRaise(KeyError)
            ELSE IF RatioError(metrics) = "TypeError" THEN StageRaise(TypeError)
            ELSE [ok |-> TRUE, exc |-> NoExc,
                  printed |-> IF IntrinsicValueRaises(free_cash_flow)
                              THEN <<DebugNote("TypeError")>> ELSE <<>>,
                  delta |->
                     [messages |->
                         <<FundamentalsMessage(
                             FundamentalSignals(metrics, financial_line_item,
                                                data["market_cap"]))>>,
                      data |-> data]]

\* fundamentals.py lines 103-260
FundamentalsAgent ==
    /\ pc = "fundamentals"
    /\ ran' = Append(ran, "fundamentals")
    /\ msgs_before' = state_messages
    /\ LET r == fundamentals_agent(state_data)
       IN IF r.ok
          THEN /\ delta' = r.delta
               /\ out' = out \o r.printed
               /\ pc' = "merge"
               /\ exc' = exc
          ELSE /\ exc' = r.exc
               /\ pc' = "aborted"
               /\ UNCHANGED <<delta, out>>
    /\ UNCHANGED <<state_data, state_messages, depth, loc, call, ret,
                   invoked, ghosts, pipeFrame>>

\* sentiment.py lines 56-123
SentimentAgent ==
    /\ pc = "sentiment"
    /\ ran' = Append(ran, "sentiment")
    /\ msgs_before' = state_messages
    /\ delta' = sentiment_agent(state_data)
    /\ pc' = "merge"
    /\ UNCHANGED <<state_data, state_messages, depth, loc, call, ret, exc, out,
                   invoked, ghosts, pipeFrame>>

----------------------------------------------------------------------------
(* The container: applies the reducers of AgentState to a stage's return     *)
(* value and runs the next stage (market data, fundamentals, sentiment).      *)

NextStage(last) ==
    IF last = "market_data" THEN "fundamentals"
    ELSE IF last = "fundamentals" THEN "sentiment"
    ELSE "done"

\* state.py lines 14-17: messages by operator.add, data by merge_dicts
ContainerMerge ==
    /\ pc = "merge"
    /\ state_messages' = operator_add(state_messages, delta.messages)
    /\ state_data' = merge_dicts(state_data, delta.data)
    /\ pc' = NextStage(ran[Len(ran)])
    /\ UNCHANGED <<depth, loc, call, ret, exc, out, delta, ran, msgs_before,
                   invoked, ghosts, pipeFrame>>

----------------------------------------------------------------------------
(* Specification of a pipeline run *)

\* The run may start with messages already in the state (the request that
\* started it); the empty sequence is the case n = 0.
InitMessages == UNION {[1..n -> {UserMessage}] : n \in 0..MaxInitMessages}

InitDates ==
    {<<NoDate, e>> : e \in EndDates \cup {NoDate}}
    \cup {<<s, [y |-> 2024, m |-> 1, d |-> 15]>> : s \in GivenStartDates}

InitData ==
    LET base == {[ticker |-> "AAPL", start_date |-> p[1], end_date |-> p[2]] :
                    p \in InitDates}
    IN base \cup {SetItem(b, "data_source", src) : b \in base, src \in {YAHOO, FD}}

MergeIdle == [ab |-> EmptyDict, ba |-> EmptyDict, bc |-> EmptyDict,
              ab_c |-> EmptyDict, a_bc |-> EmptyDict,
              e_a |-> EmptyDict, a_e |-> EmptyDict]

\* the variables of the specifications of the pure functions, unused in a run
MergeUnused ==
    /\ ma = EmptyDict /\ mb = EmptyDict /\ mc = EmptyDict
    /\ m0 = [a |-> EmptyDict, b |-> EmptyDict, c |-> EmptyDict]
    /\ mr = MergeIdle
    /\ mstep = 0

AddIdle == [xy |-> <<>>, yx |-> <<>>]

AddUnused == xs = <<>> /\ ys = <<>> /\ xr = AddIdle /\ xstep = 0

NoScore == [signal |-> "", confidence |-> [num |-> 0, den |-> 1], percent |-> 0,
            signals |-> <<>>]

ScoreIdle == [fundamentals |-> NoScore, sentiment |-> NoScore]

ScoreUnused ==
    /\ sc_in = [signals |-> <<>>, insider_trades |-> <<>>]
    /\ sc_out = ScoreIdle
    /\ sc_step = 0

NoDates == [end_date |-> NoDate, start_date |-> NoDate, ok |-> FALSE]

DateUnused ==
    /\ dt_in = [start_date |-> NoDate, end_date |-> NoDate]
    /\ dt_out = NoDates
    /\ dt_step = 0

\* the state of a pipeline between two stages
NoRun == [data |-> EmptyDict, messages |-> <<>>, aborted |-> FALSE]

OrderUnused ==
    /\ od_in = NoRun
    /\ od_out = [fs |-> NoRun, sf |-> NoRun]
    /\ od_step = 0

Init ==
    /\ state_data \in InitData
    /\ state_messages \in InitMessages
    /\ state_metadata \in {[show_reasoning |-> b] : b \in BOOLEAN}
    /\ pc = "market_data"
    /\ depth = 0
    /\ loc = LocInit
    /\ call = CallIdle
    /\ ret = NoValues
    /\ exc = NoExc
    /\ out = <<>>
    /\ delta = NoDelta
    /\ ran = <<>>
    /\ msgs_before = state_messages
    /\ init_messages = state_messages
    /\ invoked = [s \in {YAHOO, FD} |-> [o \in Ops |-> 0]]
    /\ sources = <<>>
    /\ fetched = {}
    /\ MergeUnused
    /\ AddUnused
    /\ ScoreUnused
    /\ DateUnused
    /\ OrderUnused

Next ==
    \/ MarketDataEnter
    \/ get_prices
    \/ get_prices_fallback
    \/ get_financial_metrics
    \/ get_financial_metrics_fallback
    \/ get_insider_trades
    \/ get_insider_trades_fallback
    \/ get_market_cap
    \/ get_market_cap_fallback
    \/ search_line_items
    \/ search_line_items_fallback
    \/ MarketDataReturn
    \/ MarketDataExcept
    \/ ContainerMerge
    \/ FundamentalsAgent
    \/ SentimentAgent

Spec == Init /\ [][Next]_vars

----------------------------------------------------------------------------
(* Specification of merge_dicts applied to arbitrary operands *)

KeyNames == <<"ticker", "prices", "market_cap", "insider_trades">>
MergeKeys == {KeyNames[i] : i \in 1..NumKeys}
MergeValues == {1, 2}
Dicts == UNION {[D -> MergeValues] : D \in SUBSET MergeKeys}

\* state.py lines 10-11: a call of merge_dicts builds a new dict and leaves
\* the two argument objects as they are
MergeCall(a, b) == [result |-> merge_dicts(a, b), a |-> a, b |-> b]

PipeIdle ==
    /\ state_data = EmptyDict
    /\ state_messages = <<>>
    /\ state_metadata = EmptyDict
    /\ pc = "idle"
    /\ depth = 0
    /\ loc = LocInit
    /\ call = CallIdle
    /\ ret = NoValues
    /\ exc = NoExc
    /\ out = <<>>
    /\ delta = NoDelta
    /\ ran = <<>>
    /\ msgs_before = <<>>
    /\ init_messages = <<>>
    /\ invoked = [s \in {YAHOO, FD} |-> [o \in Ops |-> 0]]
    /\ sources = <<>>
    /\ fetched = {}

MergeInit ==
    /\ PipeIdle
    /\ AddUnused
    /\ ScoreUnused
    /\ DateUnused
    /\ OrderUnused
    /\ ma \in Dicts /\ mb \in Dicts /\ mc \in Dicts
    /\ m0 = [a |-> ma, b |-> mb, c |-> mc]
    /\ mr = MergeIdle
    /\ mstep = 0

\* merge_dicts(a, b)
MergeAB ==
    /\ mstep = 0
    /\ LET r == MergeCall(ma, mb)
       IN mr' = [mr EXCEPT !.ab = r.result] /\ ma' = r.a /\ mb' = r.b
    /\ mstep' = 1
    /\ UNCHANGED <<mc, m0, pipeVars, pureVars>>

\* merge_dicts(b, a)
MergeBA ==
    /\ mstep = 1
    /\ LET r == MergeCall(mb, ma)
       IN mr' = [mr EXCEPT !.ba = r.result] /\ mb' = r.a /\ ma' = r.b
    /\ mstep' = 2
    /\ UNCHANGED <<mc, m0, pipeVars, pureVars>>

\* merge_dicts(b, c)
MergeBC ==
    /\ mstep = 2
    /\ LET r == MergeCall(mb, mc)
       IN mr' = [mr EXCEPT !.bc = r.result] /\ mb' = r.a /\ mc' = r.b
    /\ mstep' = 3
    /\ UNCHANGED <<ma, m0, pipeVars, pureVars>>

\* merge_dicts(merge_dicts(a, b), c)
MergeAB_C ==
    /\ mstep = 3
    /\ LET r == MergeCall(mr.ab, mc)
       IN mr' = [mr EXCEPT !.ab_c = r.result, !.ab = r.a] /\ mc' = r.b
    /\ mstep' = 4
    /\ UNCHANGED <<ma, mb, m0, pipeVars, pureVars>>

\* merge_dicts(a, merge_dicts(b, c))
MergeA_BC ==
    /\ mstep = 4
    /\ LET r == MergeCall(ma, mr.bc)
       IN mr' = [mr EXCEPT !.a_bc = r.result, !.bc = r.b] /\ ma' = r.a
    /\ mstep' = 5
    /\ UNCHANGED <<mb, mc, m0, pipeVars, pureVars>>

\* merge_dicts({}, a)
MergeEmptyA ==
    /\ mstep = 5
    /\ LET r == MergeCall(EmptyDict, ma)
       IN mr' = [mr EXCEPT !.e_a = r.result] /\ ma' = r.b
    /\ mstep' = 6
    /\ UNCHANGED <<mb, mc, m0, pipeVars, pureVars>>

\* merge_dicts(a, {})
MergeAEmpty ==
    /\ mstep = 6
    /\ LET r == MergeCall(ma, EmptyDict)
       IN mr' = [mr EXCEPT !.a_e = r.result] /\ ma' = r.a
    /\ mstep' = 7
    /\ UNCHANGED <<mb, mc, m0, pipeVars, pureVars>>

MergeNext ==
    \/ MergeAB
    \/ MergeBA
    \/ MergeBC
    \/ MergeAB_C
    \/ MergeA_BC
    \/ MergeEmptyA
    \/ MergeAEmpty

MergeSpec == MergeInit /\ [][MergeNext]_vars

----------------------------------------------------------------------------
(* Specification of operator.add applied to arbitrary message lists *)

AddMessages == {UserMessage, SentimentMessage(<<>>)}
MessageLists == UNION {[1..n -> AddMessages] : n \in 0..MaxListLen}

\* state.py line 15: operator.add builds a new list and leaves the two
\* argument objects as they are
AddCall(a, b) == [result |-> operator_add(a, b), a |-> a, b |-> b]

AddInit ==
    /\ PipeIdle
    /\ MergeUnused
    /\ ScoreUnused
    /\ DateUnused
    /\ OrderUnused
    /\ xs \in MessageLists /\ ys \in MessageLists
    /\ xr = AddIdle
    /\ xstep = 0

\* operator.add(xs, ys)
AddXY ==
    /\ xstep = 0
    /\ LET r == AddCall(xs, ys)
       IN xr' = [xr EXCEPT !.xy = r.result] /\ xs' = r.a /\ ys' = r.b
    /\ xstep' = 1
    /\ UNCHANGED <<pipeVars, mergeVars, scoreVars, dateVars, orderVars>>

\* operator.add(ys, xs)
AddYX ==
    /\ xstep = 1
    /\ LET r == AddCall(ys, xs)
       IN xr' = [xr EXCEPT !.yx = r.result] /\ ys' = r.a /\ xs' = r.b
    /\ xstep' = 2
    /\ UNCHANGED <<pipeVars, mergeVars, scoreVars, dateVars, orderVars>>

AddNext ==
    \/ AddXY
    \/ AddYX

AddSpec == AddInit /\ [][AddNext]_vars

----------------------------------------------------------------------------
(* Specification of the date defaults of market_data_agent *)

DateYears == {2023, 2024}
DateDays == {10, 15, 28, 29, 30, 31}
CalendarDates ==
    {dt \in [y : DateYears, m : 1..12, d : DateDays] : ValidDate(dt)}

DateInit ==
    /\ PipeIdle
    /\ MergeUnused
    /\ AddUnused
    /\ ScoreUnused
    /\ OrderUnused
    /\ dt_in \in [start_date : {NoDate} \cup GivenStartDates,
                  end_date : {NoDate} \cup CalendarDates]
    /\ dt_out = NoDates
    /\ dt_step = 0

\* market_data.py lines 24-33
DeriveDates ==
    /\ dt_step = 0
    /\ \E now \in NowDates : dt_out' = ResolveDates(dt_in, now)
    /\ dt_step' = 1
    /\ UNCHANGED <<dt_in, pipeVars, mergeVars, addVars, scoreVars, orderVars>>

DateNext == DeriveDates

DateSpec == DateInit /\ [][DateNext]_vars

----------------------------------------------------------------------------
(* Specification of the scoring code applied to arbitrary sub-signals and    *)
(* insider trades                                                            *)

Labels == {"bullish", "bearish", "neutral"}

\* the sub-signal lists fundamentals_agent can build: four threshold votes
\* and the intrinsic-value vote, which is never neutral (line 211)
SubSignalLists == {sg \in [1..5 -> Labels] : sg[5] # "neutral"}

ScoredShares == {100, -50, 0}
ScoredTradeLists ==
    UNION {[1..n -> {Trade(sh) : sh \in ScoredShares}] : n \in 0..MaxScoredTrades}

ScoreInit ==
    /\ PipeIdle
    /\ MergeUnused
    /\ AddUnused
    /\ DateUnused
    /\ OrderUnused
    /\ sc_in \in [signals : SubSignalLists, insider_trades : ScoredTradeLists]
    /\ sc_out = ScoreIdle
    /\ sc_step = 0

\* fundamentals.py lines 217-236
ScoreFundamentals ==
    /\ sc_step = 0
    /\ LET m == FundamentalsMessage(sc_in.signals)
       IN sc_out' = [sc_out EXCEPT !.fundamentals =
                        [signal |-> m.signal,
                         confidence |-> FundamentalsConfidence(sc_in.signals),
                         percent |-> m.confidence,
                         signals |-> m.signals]]
    /\ sc_step' = 1
    /\ UNCHANGED <<sc_in, pipeVars, mergeVars, addVars, dateVars, orderVars>>

\* sentiment.py lines 56-109
ScoreSentiment ==
    /\ sc_step = 1
    /\ LET r == sentiment_agent([insider_trades |-> sc_in.insider_trades])
           m == r.messages[1]
       IN sc_out' = [sc_out EXCEPT !.sentiment =
                        [signal |-> m.signal,
                         confidence |-> SentimentConfidence(m.signals),
                         percent |-> m.confidence,
                         signals |-> m.signals]]
    /\ sc_step' = 2
    /\ UNCHANGED <<sc_in, pipeVars, mergeVars, addVars, dateVars, orderVars>>

ScoreNext ==
    \/ ScoreFundamentals
    \/ ScoreSentiment

ScoreSpec == ScoreInit /\ [][ScoreNext]_vars

----------------------------------------------------------------------------
(* Specification of the two scoring stages run in either order on a state    *)
(* left by the market-data stage                                             *)

\* a call of a scoring stage: a raised exception or the returned value
StageCall(name, data) ==
    IF name = "fundamentals" THEN fundamentals_agent(data)
    ELSE [ok |-> TRUE, exc |-> NoExc, printed |-> <<>>,
          delta |-> sentiment_agent(data)]

\* one stage of a run: the call, then the reducers of AgentState applied to
\* what it returned; a raised exception ends the run
RunStage(st, name) ==
    IF st.aborted THEN st
    ELSE LET r == StageCall(name, st.data)
         IN IF r.ok
            THEN [data |-> merge_dicts(st.data, r.delta.data),
                  messages |-> operator_add(st.messages, r.delta.messages),
                  aborted |-> FALSE]
            ELSE [st EXCEPT !.aborted = TRUE]

\* what get_financial_metrics and search_line_items can hand to the stage
OrderMetrics == FdMetricsPayloads \cup {<<YfMetricsRecord(i)>> : i \in YfInfos}
OrderLineItems == FdLineItemPayloads \cup {<<[free_cash_flow |-> 0]>>}

OrderData ==
    {[ticker |-> "AAPL", financial_metrics |-> fm, financial_line_items |-> li,
      market_cap |-> cap, insider_trades |-> tr] :
        fm \in OrderMetrics, li \in OrderLineItems, cap \in {0, 1000},
        tr \in TradeLists}

OrderInit ==
    /\ PipeIdle
    /\ MergeUnused
    /\ AddUnused
    /\ ScoreUnused
    /\ DateUnused
    /\ od_in \in {[data |-> d, messages |-> ms, aborted |-> FALSE] :
                     d \in OrderData, ms \in InitMessages}
    /\ od_out = [fs |-> NoRun, sf |-> NoRun]
    /\ od_step = 0

\* fundamentals_agent, then sentiment_agent
RunFundamentalsThenSentiment ==
    /\ od_step = 0
    /\ od_out' = [od_out EXCEPT !.fs =
                     RunStage(RunStage(od_in, "fundamentals"), "sentiment")]
    /\ od_step' = 1
    /\ UNCHANGED <<od_in, pipeVars, mergeVars, addVars, scoreVars, dateVars>>

\* sentiment_agent, then fundamentals_agent
RunSentimentThenFundamentals ==
    /\ od_step = 1
    /\ od_out' = [od_out EXCEPT !.sf =
                     RunStage(RunStage(od_in, "sentiment"), "fundamentals")]
    /\ od_step' = 2
    /\ UNCHANGED <<od_in, pipeVars, mergeVars, addVars, scoreVars, dateVars>>

OrderNext ==
    \/ RunFundamentalsThenSentiment
    \/ RunSentimentThenFundamentals

OrderSpec == OrderInit /\ [][OrderNext]_vars

----------------------------------------------------------------------------
(* Properties of the unified fetchers *)

RequiredOps == {"prices", "financial_metrics", "market_cap"}
OptionalOps == {"insider_trades", "financial_line_items"}

ExceptPcs == {"prices_except", "financial_metrics_except", "insider_trades_except",
              "market_cap_except", "financial_line_items_except"}

Last(seq) == seq[Len(seq)]

CallFinished == call.result # "none"

\* C1: a unified fetch called with data_source = "financialdatasets" whose
\* secondary adapter fails invokes the Yahoo adapter exactly once, with the
\* arguments of the call, and ends with that adapter's outcome: its value is
\* what the caller receives, its exception is what propagates.  No call makes
\* more than two adapter invocations or invokes the secondary adapter twice.
C1_SecondaryFailureFallsBackOnce ==
    /\ call.fd <= 1
    /\ call.fd + call.yf <= 2
    /\ (call.src = FD /\ call.fd_failed) =>
          /\ call.fd = 1
          /\ pc \in ExceptPcs => call.yf = 0 /\ ~CallFinished
          /\ pc \notin ExceptPcs =>
                /\ call.yf = 1
                /\ CallFinished
                /\ call.fallback_args = call.args
                /\ call.args = Args(call.op, state_data, loc)
          /\ (call.result = "returned" /\ pc # "market_data") =>
                /\ ~call.yf_failed \/ call.op \in OptionalOps
                /\ loc[call.op] = ret[call.op]
          /\ (call.result = "raised" /\ pc = "md_except") =>
                /\ call.yf_failed
                /\ exc = YahooError(exc.cause)
                /\ exc.cause \in YfCauses

\* C1 witness: a secondary failure followed by a Yahoo result, and one
\* followed by a Yahoo failure
C1_Witness_Returned ==
    /\ call.src = FD /\ call.fd_failed /\ call.result = "returned"
    /\ call.op = "prices" /\ loc.prices # <<>>

C1_Witness ==
    /\ call.src = FD /\ call.fd_failed /\ call.result = "raised"
    /\ call.yf = 1 /\ pc = "md_except"

C2_Witness_Raised ==
    /\ call.src = YAHOO /\ call.yf_failed /\ call.op = "market_cap"
    /\ call.result = "raised"

\* C3: for prices, financial metrics and market cap, a call with the
\* secondary source never hands the caller the empty payload (or zero market
\* cap) of a secondary response: an empty payload makes it fall back.
C3_EmptyRequiredPayloadFallsBack ==
    ~ /\ call.src = FD
      /\ call.op \in RequiredOps
      /\ call.result = "returned"
      /\ call.yf = 0
      /\ \/ call.op = "prices" /\ loc.prices = <<>>
         \/ call.op = "financial_metrics" /\ loc.financial_metrics = <<>>
         \/ call.op = "market_cap" /\ loc.market_cap = 0

----------------------------------------------------------------------------
(* Properties of the market-data stage and of the pipeline *)

Terminal == pc \in {"done", "aborted"}

\* position of a control point inside one run of the stage body and after it
PcIndex ==
    CASE pc = "market_data" -> 30
      [] pc = "prices" -> 1
      [] pc = "prices_except" -> 2
      [] pc = "financial_metrics" -> 3
      [] pc = "financial_metrics_except" -> 4
      [] pc = "insider_trades" -> 5
      [] pc = "insider_trades_except" -> 6
      [] pc = "market_cap" -> 7
      [] pc = "market_cap_except" -> 8
      [] pc = "financial_line_items" -> 9
      [] pc = "financial_line_items_except" -> 10
      [] pc \in {"md_return", "md_except"} -> 11
      [] pc = "merge" -> 12 + 3 * (Len(ran) - 1)
      [] pc = "fundamentals" -> 13
      [] pc = "sentiment" -> 16
      [] OTHER -> 30

\* no run stops before it is done or aborted
NoStuckState == Terminal \/ ENABLED Next

\* a natural number that every step of a run decreases
Rank == 60 * (2 - depth) + (30 - PcIndex)

\* the stage is inside its body
InBody == pc \in Ops \cup ExceptPcs \cup {"md_return", "md_except"}

\* C4 (state part): the body of market_data_agent runs at most twice; a
\* second run happens only after a first run on "financialdatasets" and is on
\* "yahoo"; a failure surfaced on "financialdatasets" is never handed to the
\* caller but leads to the second run, which derives the dates again and
\* issues all five fetches before it returns; a failure of the second run is
\* handed to the caller.
C4_StageState ==
    /\ depth \in 0..2
    /\ Len(sources) = depth
    /\ depth = 2 => sources = <<FD, YAHOO>>
    /\ InBody => loc.data_source = Last(sources)
    /\ (pc = "market_data" /\ depth = 1) =>
          /\ sources = <<FD>>
          /\ Get(state_data, "data_source", YAHOO) = YAHOO
          /\ exc.names = {YAHOO}
    /\ (InBody /\ depth = 2) =>
          /\ loc.data_source = YAHOO
          /\ loc.end_date # NoDate /\ ValidDate(loc.start_date)
    /\ pc = "md_return" => fetched = Ops
    /\ (pc = "aborted" /\ ran = <<"market_data">> /\ exc # ValueError) =>
          /\ Last(sources) = YAHOO
          /\ exc.names = {YAHOO}
    /\ Rank \in 0..150

\* C4: the state part holds always, and every step of a run lowers Rank, so
\* every invocation of the stage (and the run) terminates.
C4_StageFallbackOnceAndTerminates ==
    [](C4_StageState) /\ [][Rank' < Rank]_vars

\* C4 witness: the second run of the body failed as well
C4_Witness ==
    /\ pc = "aborted" /\ depth = 2 /\ sources = <<FD, YAHOO>>
    /\ exc.names = {YAHOO}

C4_Witness_SecondRunSucceeds ==
    pc = "md_return" /\ depth = 2 /\ fetched = Ops

Diagnosed(tag, source, cause) ==
    \E i \in 1..Len(out) :
        /\ out[i].tag = tag
        /\ source \in out[i].names
        /\ out[i].cause = cause

\* C6: every per-call fallback, every stage-level fallback and every abort of
\* the run comes after a printed diagnostic naming the failing source and the
\* cause.
C6_DiagnosticBeforeFallbackAndAbort ==
    /\ pc \in ExceptPcs =>
          /\ out # <<>>
          /\ Last(out) = FallbackNote(exc)
          /\ FD \in Last(out).names /\ Last(out).cause \in FdFailStatus
    /\ (pc = "market_data" /\ depth = 1) =>
          /\ Diagnosed("stage_error", YAHOO, exc.cause)
          /\ Last(out) = StageFallbackNote
    /\ pc = "aborted" =>
          \E src \in {YAHOO, FD} : Diagnosed("stage_error", src, exc.cause)

\* C6 restricted to fetch failures: the part of C6 that holds
C6_FetchFailuresDiagnosed ==
    /\ pc \in ExceptPcs => out # <<>> /\ Last(out) = FallbackNote(exc)
    /\ (pc = "market_data" /\ depth = 1) =>
          Diagnosed("stage_error", YAHOO, exc.cause) /\ Last(out) = StageFallbackNote
    /\ (pc = "aborted" /\ exc.names # {}) =>
          Diagnosed("stage_error", YAHOO, exc.cause)

\* the messages the stage that ran last newly produced
NewMessages ==
    IF Last(ran) = "market_data" THEN <<>>
    ELSE <<Last(delta.messages)>>

\* C7: after the container has merged the return value of a stage, messages
\* is what it was before the stage ran followed by the messages the stage
\* newly produced: none for market data, one for fundamentals, one for
\* sentiment.
C7_StagesReturnMessageDelta ==
    (pc \in {"fundamentals", "sentiment", "done"}) =>
        /\ state_messages = msgs_before \o NewMessages
        /\ Last(ran) = "fundamentals" =>
              Last(state_messages).name = "fundamentals_agent"
        /\ Last(ran) = "sentiment" =>
              Last(state_messages).name = "sentiment_agent"

\* C7 for the two scoring stages alone, which do return a delta
C7_ScoringStagesReturnDelta ==
    (pc \in {"sentiment", "done"}) =>
        /\ state_messages = msgs_before \o <<Last(delta.messages)>>
        /\ Len(delta.messages) = 1

----------------------------------------------------------------------------
(* Properties of merge_dicts (MergeSpec) *)

\* C8: merge_dicts(a, b) has exactly the keys of a and of b; a key only in a
\* keeps a's value, a key only in b keeps b's value, a key in both takes b's
\* value; the two argument dicts are left as they were.
C8_MergeUnionRightWins ==
    mstep >= 1 =>
        /\ DOMAIN mr.ab = DOMAIN m0.a \cup DOMAIN m0.b
        /\ \A k \in DOMAIN m0.a \ DOMAIN m0.b : mr.ab[k] = m0.a[k]
        /\ \A k \in DOMAIN m0.b \ DOMAIN m0.a : mr.ab[k] = m0.b[k]
        /\ \A k \in DOMAIN m0.a \cap DOMAIN m0.b : mr.ab[k] = m0.b[k]
        /\ ma = m0.a /\ mb = m0.b /\ mc = m0.c

C8_Witness ==
    /\ mstep = 1
    /\ \E k \in DOMAIN m0.a \cap DOMAIN m0.b : m0.a[k] # m0.b[k] /\ mr.ab[k] = m0.b[k]
    /\ DOMAIN m0.a \ DOMAIN m0.b # {}

\* C9: merge_dicts is associative on all operands, overlapping keys
\* included, and the empty dict is a left and right identity.
C9_MergeAssociativeWithIdentity ==
    /\ mstep >= 5 => mr.ab_c = mr.a_bc
    /\ mstep >= 6 => mr.e_a = m0.a
    /\ mstep >= 7 => mr.a_e = m0.a

C9_Witness ==
    /\ mstep = 7
    /\ \E k \in DOMAIN m0.a \cap DOMAIN m0.b \cap DOMAIN m0.c :
          m0.a[k] # m0.b[k] /\ m0.b[k] # m0.c[k]
    /\ DOMAIN m0.a # DOMAIN m0.b
    /\ mr.ab_c = mr.a_bc

\* C10: merge_dicts(a, b) = merge_dicts(b, a) whenever a and b have no key
\* in common.
C10_MergeCommutativeOnDisjointKeys ==
    (mstep >= 2 /\ DOMAIN m0.a \cap DOMAIN m0.b = {}) => mr.ab = mr.ba

C10_Witness ==
    /\ mstep = 2
    /\ DOMAIN m0.a \cap DOMAIN m0.b = {}
    /\ DOMAIN m0.a # {} /\ DOMAIN m0.b # {}
    /\ mr.ab = mr.ba

----------------------------------------------------------------------------
(* Properties of the messages reducer *)

\* C11: the messages reducer is concatenation.  operator.add(xs, ys) has the
\* elements of xs, in their order, followed by the elements of ys, in their
\* order (and likewise with the operands exchanged); for two one-element
\* lists with different messages the result is [m1, m2] and differs from the
\* result with the operands exchanged, so the operation is not commutative.
C11_MessagesMergeIsConcatenation ==
    /\ xstep >= 1 =>
          /\ Len(xr.xy) = Len(xs) + Len(ys)
          /\ \A i \in 1..Len(xs) : xr.xy[i] = xs[i]
          /\ \A j \in 1..Len(ys) : xr.xy[Len(xs) + j] = ys[j]
    /\ xstep = 2 =>
          /\ Len(xr.yx) = Len(xs) + Len(ys)
          /\ \A j \in 1..Len(ys) : xr.yx[j] = ys[j]
          /\ \A i \in 1..Len(xs) : xr.yx[Len(ys) + i] = xs[i]
          /\ (xs # <<>> /\ ys # <<>> /\ xs[1] # ys[1]) => xr.xy # xr.yx

\* C11 witness: merge([m1], [m2]) = [m1, m2], and merge([m2], [m1]) differs
C11_Witness ==
    /\ xstep = 2
    /\ Len(xs) = 1 /\ Len(ys) = 1 /\ xs[1] # ys[1]
    /\ xr.xy = <<xs[1], ys[1]>>
    /\ xr.yx = <<ys[1], xs[1]>>
    /\ xr.xy # xr.yx

----------------------------------------------------------------------------
(* Properties of the date defaults *)

C12_Witness_SameYear ==
    /\ dt_step = 1 /\ dt_in.start_date = NoDate
    /\ dt_in.end_date = [y |-> 2024, m |-> 6, d |-> 30]
    /\ dt_out.ok
    /\ dt_out.start_date = [y |-> 2024, m |-> 3, d |-> 30]

----------------------------------------------------------------------------
(* Properties of the optional fetch of insider trades *)

\* C13: an insider-trades adapter that returns an empty sequence has
\* succeeded.  The fallback of get_insider_trades starts only after a failed
\* HTTP status of the secondary adapter; a call whose adapter returned []
\* made that one invocation and hands [] to the stage; the stage returns
\* data with insider_trades = [], and the sentiment stage then reports
\* "neutral" with confidence 50%.
C13_EmptyInsiderTradesIsSuccess ==
    /\ pc = "insider_trades_except" =>
          (call.fd_failed /\ exc.cause \in FdFailStatus)
    /\ (call.op = "insider_trades" /\ call.result = "returned"
            /\ ~call.fd_failed /\ ret.insider_trades = <<>>) =>
          /\ call.fd + call.yf = 1
          /\ loc.insider_trades = <<>>
          /\ pc \notin ExceptPcs \cup {"md_except", "aborted"}
    /\ (pc = "merge" /\ Last(ran) = "market_data") =>
          delta.data["insider_trades"] = loc.insider_trades
    /\ (pc \in {"fundamentals", "sentiment"}) =>
          state_data["insider_trades"] = loc.insider_trades
    /\ (pc = "merge" /\ Last(ran) = "sentiment" /\ loc.insider_trades = <<>>) =>
          /\ Len(delta.messages) = 1
          /\ delta.messages[1].name = "sentiment_agent"
          /\ delta.messages[1].signal = "neutral"
          /\ delta.messages[1].confidence = 50
          /\ delta.data["insider_trades"] = <<>>

\* C13 witness: the secondary adapter returned [] and was the only adapter
\* invoked for insider trades; the sentiment stage has reported on []
C13_Witness ==
    /\ pc = "merge" /\ Last(ran) = "sentiment"
    /\ sources = <<FD>>
    /\ invoked[FD]["insider_trades"] = 1 /\ invoked[YAHOO]["insider_trades"] = 0
    /\ state_data["insider_trades"] = <<>>
    /\ delta.messages[1].signal = "neutral"
    /\ delta.messages[1].confidence = 50

----------------------------------------------------------------------------
(* Properties of the scoring code *)

Bullish(score) == Count(score.signals, "bullish")
Bearish(score) == Count(score.signals, "bearish")

\* the confidence fraction lies in [0, 1]
InUnitInterval(c) == c.den > 0 /\ 0 <= c.num /\ c.num <= c.den

\* C14: in both scoring stages, equal numbers of bullish and bearish
\* sub-signals give the overall signal "neutral", and the confidence is
\* within [0, 1] (its printed percentage within 0..100).
C14_TiesNeutralConfidenceInUnitInterval ==
    /\ sc_step >= 1 =>
          LET f == sc_out.fundamentals
          IN /\ Bullish(f) = Bearish(f) => f.signal = "neutral"
             /\ InUnitInterval(f.confidence)
             /\ f.percent \in 0..100
    /\ sc_step = 2 =>
          LET t == sc_out.sentiment
          IN /\ Bullish(t) = Bearish(t) => t.signal = "neutral"
             /\ InUnitInterval(t.confidence)
             /\ t.percent \in 0..100

\* C14 witness: a tie with votes on both sides in each of the two stages
C14_Witness ==
    /\ sc_step = 2
    /\ Bullish(sc_out.fundamentals) = 2 /\ Bearish(sc_out.fundamentals) = 2
    /\ sc_out.fundamentals.signal = "neutral"
    /\ Bullish(sc_out.sentiment) = 1 /\ Bearish(sc_out.sentiment) = 1
    /\ sc_out.sentiment.signal = "neutral"

\* the reported confidence is (sub-signals carrying label) / (all sub-signals)
ShareOfLabel(score, label) ==
    /\ Len(score.signals) > 0
    /\ score.confidence.num * Len(score.signals)
           = Count(score.signals, label) * score.confidence.den

\* C15 as stated: in each scoring stage the reported confidence is the number
\* of sub-signals carrying the label reported as the overall signal, divided
\* by the number of sub-signals.
C15_ConfidenceIsShareOfReportedLabel ==
    /\ sc_step >= 1 => ShareOfLabel(sc_out.fundamentals, sc_out.fundamentals.signal)
    /\ sc_step = 2 => ShareOfLabel(sc_out.sentiment, sc_out.sentiment.signal)

\* the share of the larger of the bullish and the bearish side
LargerSideShare(score) ==
    /\ score.confidence.den = Len(score.signals)
    /\ score.confidence.num = Max(Bullish(score), Bearish(score))
    /\ score.signal \in {"bullish", "bearish"} => ShareOfLabel(score, score.signal)
    /\ score.signal = "neutral" =>
          (Bullish(score) = Bearish(score) /\ score.confidence.num = Bullish(score))

\* C15 (amended): the reported confidence is max(bullish count, bearish
\* count) divided by the number of sub-signals.  That is the share of the
\* reported label when the overall signal is bullish or bearish; on a tie
\* (overall neutral) it is the share of the bullish (equally, the bearish)
\* sub-signals, whatever the number of neutral ones; the sentiment stage
\* without any sub-signal reports 1/2.
C15_ConfidenceIsShareOfLargerSide ==
    /\ sc_step >= 1 => LargerSideShare(sc_out.fundamentals)
    /\ sc_step = 2 =>
          IF sc_out.sentiment.signals = <<>>
          THEN /\ sc_out.sentiment.confidence = [num |-> 1, den |-> 2]
               /\ sc_out.sentiment.signal = "neutral"
          ELSE LargerSideShare(sc_out.sentiment)

\* C15 witness: a tie of one bullish and one bearish vote among five, three
\* of them neutral: the confidence is 1/5, not 3/5
C15_Witness ==
    /\ sc_step = 2
    /\ Bullish(sc_out.fundamentals) = 1 /\ Bearish(sc_out.fundamentals) = 1
    /\ Count(sc_out.fundamentals.signals, "neutral") = 3
    /\ sc_out.fundamentals.signal = "neutral"
    /\ sc_out.fundamentals.confidence = [num |-> 1, den |-> 5]
    /\ sc_out.fundamentals.percent = 20

\* C16: the sentiment stage counts a trade with transaction_shares > 0 as a
\* buy and one with transaction_shares < 0 as a sell.  Equal numbers give
\* "neutral" with confidence 1/2 (50%), more buys give "bullish", more sells
\* give "bearish"; [{100}, {-50}] gives neutral, 50%.
C16_SentimentFollowsBuySellCounts ==
    sc_step = 2 =>
        LET trades == sc_in.insider_trades
            buys == Cardinality({i \in 1..Len(trades) :
                                    trades[i].transaction_shares > 0})
            sells == Cardinality({i \in 1..Len(trades) :
                                     trades[i].transaction_shares < 0})
            t == sc_out.sentiment
        IN /\ buys = sells =>
                 /\ t.signal = "neutral"
                 /\ 2 * t.confidence.num = t.confidence.den
                 /\ t.percent = 50
           /\ buys > sells => t.signal = "bullish"
           /\ sells > buys => t.signal = "bearish"
           /\ trades = <<Trade(100), Trade(-50)>> =>
                 (t.signal = "neutral" /\ t.percent = 50)

\* C16 witness: the example of one buy and one sell
C16_Witness ==
    /\ sc_step = 2
    /\ sc_in.insider_trades = <<Trade(100), Trade(-50)>>
    /\ sc_out.sentiment.signal = "neutral"
    /\ sc_out.sentiment.confidence = [num |-> 1, den |-> 2]
    /\ sc_out.sentiment.percent = 50

C16_Witness_MoreSells ==
    /\ sc_step = 2
    /\ sc_in.insider_trades = <<Trade(-50), Trade(0), Trade(-50)>>
    /\ sc_out.sentiment.signal = "bearish"
    /\ sc_out.sentiment.percent = 100

----------------------------------------------------------------------------
(* Properties of the error handling of the fundamentals stage *)

FundamentalsFinished == pc = "merge" /\ Last(ran) = "fundamentals"
FundamentalsAborted == pc = "aborted" /\ Last(ran) = "fundamentals"

\* the free_cash_flow the fundamentals stage read
CashFlowRead == Get(state_data["financial_line_items"][1], "free_cash_flow", 0)

\* C17: an error raised by the arithmetic of the fundamentals stage (the
\* intrinsic-value computation or the ratio comparisons) is caught in the
\* stage: the stage never ends a run with such an error, and after an error
\* in the intrinsic-value computation it prints a diagnostic, takes the value
\* as 0 and returns its one message.
C17_ComputationErrorsCaughtInStage ==
    /\ FundamentalsAborted => exc # TypeError
    /\ (FundamentalsFinished /\ IntrinsicValueRaises(CashFlowRead)) =>
          /\ Len(delta.messages) = 1
          /\ delta.messages[1].name = "fundamentals_agent"
          /\ delta.messages[1].signals[5] = "bearish"
          /\ Last(out) = DebugNote("TypeError")

\* The part of C17 that the code provides: an error inside
\* calculate_intrinsic_value is caught, the value degrades to 0 (the fifth
\* sub-signal is then "bearish" for any market cap >= 0) and the stage
\* returns its one message.
C17_IntrinsicValueErrorCaught ==
    /\ (FundamentalsFinished /\ IntrinsicValueRaises(CashFlowRead)) =>
          /\ Len(delta.messages) = 1
          /\ delta.messages[1].name = "fundamentals_agent"
          /\ delta.messages[1].signals[5] = "bearish"
          /\ Last(out) = DebugNote("TypeError")
    /\ (FundamentalsAborted /\ exc = TypeError) =>
          RatioError(state_data["financial_metrics"][1]) = "TypeError"
    /\ FundamentalsAborted => exc \in {IndexError, KeyError, TypeError}

C17_Witness_RatioErrorAborts ==
    /\ FundamentalsAborted /\ exc = TypeError
    /\ state_data["financial_metrics"] = <<MetricsNull>>

C17_Witness_IntrinsicErrorCaught ==
    /\ FundamentalsFinished
    /\ CashFlowRead = NonNumeric
    /\ Last(out) = DebugNote("TypeError")

----------------------------------------------------------------------------
(* Properties of the financial-metrics record *)

\* every ratio field the fundamentals stage reads is in the record, as a number
CompleteAndNumeric(record) ==
    /\ RequiredMetricKeys \subseteq DOMAIN record
    /\ \A k \in DOMAIN record : record[k] \notin {None, NonNumeric}

\* C18: for either source, every record get_financial_metrics hands to the
\* stage has each named ratio field present with a numeric value (a field
\* the upstream left out is 0), and the fundamentals stage never fails on a
\* missing or null field.
C18_MetricsRecordCompleteAndNumeric ==
    /\ \A i \in 1..Len(loc.financial_metrics) :
          CompleteAndNumeric(loc.financial_metrics[i])
    /\ FundamentalsAborted => exc \notin {KeyError, TypeError}

\* The part of C18 that the code provides: the record built by the Yahoo
\* adapter is complete and numeric, with 0 for what Ticker.info leaves out.
C18_YahooMetricsRecordComplete ==
    (call.op = "financial_metrics" /\ call.result = "returned"
        /\ call.yf = 1) =>
          /\ Len(loc.financial_metrics) = 1
          /\ CompleteAndNumeric(loc.financial_metrics[1])
          /\ loc.financial_metrics[1] \in {YfMetricsRecord(i) : i \in YfInfos}

C18_Witness_YahooDefaultsToZero ==
    /\ call.op = "financial_metrics" /\ call.result = "returned" /\ call.yf = 1
    /\ loc.financial_metrics[1]["return_on_equity"] = 0
    /\ loc.financial_metrics[1]["price_to_earnings_ratio"] = 6000

C18_Witness_MissingFieldAborts ==
    /\ FundamentalsAborted /\ exc = KeyError
    /\ state_data["financial_metrics"] = <<MetricsPartial>>

----------------------------------------------------------------------------
(* Properties of the keys of data *)

\* the data a stage has returned, not yet merged, holds every key of the
\* data the stage was given
ReturnedDataKeepsKeys ==
    pc = "merge" => DOMAIN state_data \subseteq DOMAIN delta.data

\* C19: stages never remove keys.  The data a stage returns holds every key
\* of its input, and no step of a run (a stage, the stage-level fallback, the
\* merge of a returned value) takes a key out of data: across any sequence
\* of stage executions the key set of data only grows.
C19_StagesNeverRemoveKeys ==
    [](ReturnedDataKeepsKeys)
        /\ [][DOMAIN state_data \subseteq DOMAIN state_data']_vars

\* C19 witness: all three stages ran and were merged; data holds its initial
\* key and the keys the market-data stage added
C19_Witness ==
    /\ pc = "done" /\ ran = <<"market_data", "fundamentals", "sentiment">>
    /\ {"ticker", "start_date", "end_date"} \cup Ops \subseteq DOMAIN state_data

----------------------------------------------------------------------------
(* Properties of the data the market-data stage returns *)

MarketDataCompleted == pc = "merge" /\ Last(ran) = "market_data"

\* C20: whenever the market-data stage completes successfully, the data it
\* returns holds prices, financial_metrics, insider_trades, market_cap and
\* financial_line_items, each as fetched in the execution of the body that
\* returned, and resolved start_date and end_date, on every source and
\* fallback path.
C20_CompletedStageReturnsAllFive ==
    MarketDataCompleted =>
        /\ Ops \cup {"start_date", "end_date"} \subseteq DOMAIN delta.data
        /\ fetched = Ops
        /\ \A op \in Ops : delta.data[op] = loc[op]
        /\ delta.data["end_date"] # NoDate
        /\ delta.data["start_date"] # NoDate
        /\ ValidDate(delta.data["start_date"])
        /\ delta.data["end_date"] = loc.end_date
        /\ delta.data["start_date"] = loc.start_date

\* C20 witness: the stage completed on the second execution of its body,
\* after the stage-level fallback, with dates it derived itself
C20_Witness ==
    /\ MarketDataCompleted
    /\ sources = <<FD, YAHOO>>
    /\ state_data["start_date"] = NoDate /\ state_data["end_date"] = NoDate
    /\ Ops \subseteq DOMAIN delta.data
    /\ delta.data["start_date"] = [y |-> 2024, m |-> 9, d |-> 15]

C20_Witness_PerCallFallback ==
    /\ MarketDataCompleted
    /\ sources = <<FD>>
    /\ \A op \in Ops : invoked[FD][op] = 1 /\ invoked[YAHOO][op] = 1

----------------------------------------------------------------------------
(* Properties of the order of the scoring stages *)

\* the messages a run added to those it started with
Added(st) == SubSeq(st.messages, Len(od_in.messages) + 1, Len(st.messages))

\* C21: fundamentals and sentiment do not depend on each other.  From the
\* same state left by the market-data stage, the run fundamentals-then-
\* sentiment and the run sentiment-then-fundamentals either both end in an
\* exception of the fundamentals stage or both complete; when they complete
\* they leave the same data, which is the data they started with, and each
\* adds the same fundamentals message and the same sentiment message, in the
\* order in which the stages ran.
C21_ScoringStagesIndependent ==
    od_step = 2 =>
        /\ od_out.fs.aborted = od_out.sf.aborted
        /\ ~od_out.fs.aborted =>
              /\ od_out.fs.data = od_out.sf.data
              /\ od_out.fs.data = od_in.data
              /\ Len(Added(od_out.fs)) = 2 /\ Len(Added(od_out.sf)) = 2
              /\ Added(od_out.fs)[1] = Added(od_out.sf)[2]
              /\ Added(od_out.fs)[2] = Added(od_out.sf)[1]
              /\ Added(od_out.fs)[1].name = "fundamentals_agent"
              /\ Added(od_out.fs)[2].name = "sentiment_agent"

\* C21 witness: both orders completed, with different messages of the two
\* stages, so the two message lists differ in order only
C21_Witness ==
    /\ od_step = 2
    /\ ~od_out.fs.aborted /\ ~od_out.sf.aborted
    /\ od_out.fs.data = od_out.sf.data
    /\ od_in.data["insider_trades"] # <<>>
    /\ od_out.fs.messages # od_out.sf.messages
    /\ Added(od_out.fs)[1].signal # Added(od_out.fs)[2].signal

----------------------------------------------------------------------------
(* Properties of the derivation of the start date *)

\* C22: for every valid calendar end_date with start_date missing, the
\* derivation of the start date completes without an error and yields a
\* valid calendar date, also when the day-of-month of end_date is 29, 30 or
\* 31: it never raises.
C22_DerivationNeverRaises ==
    (dt_step = 1 /\ dt_in.start_date = NoDate /\ dt_in.end_date # NoDate) =>
        (dt_out.ok /\ ValidDate(dt_out.start_date))

\* what the derivation does: datetime.replace keeps the day-of-month, so it
\* raises exactly when the month three months back is shorter than that day
C22_DerivationRaisesOnShorterMonth ==
    (dt_step = 1 /\ dt_in.start_date = NoDate /\ dt_in.end_date # NoDate) =>
        LET e == dt_in.end_date
            target == ThreeMonthsBefore(e)
        IN dt_out.ok <=> e.d <= DaysInMonth(target.y, target.m)

C22_Witness_DayMissing ==
    /\ dt_step = 1 /\ dt_in.start_date = NoDate
    /\ dt_in.end_date = [y |-> 2024, m |-> 5, d |-> 31]
    /\ ~dt_out.ok

----------------------------------------------------------------------------
(* Properties of the data handed from the market-data stage to the           *)
(* fundamentals stage                                                        *)

\* C23: whenever the market-data stage completes successfully, with either
\* source, financial_metrics and financial_line_items of the data it returns
\* are non-empty sequences, and the fundamentals stage never fails on a
\* missing first element.
C23_CompletedDataHasFirstElements ==
    /\ MarketDataCompleted =>
          /\ delta.data["financial_metrics"] # <<>>
          /\ delta.data["financial_line_items"] # <<>>
    /\ FundamentalsAborted => exc # IndexError

\* both primary adapters always build one record: what a body run with the
\* primary source fetched is never empty, and neither is what a per-call
\* fallback fetched
C23_PrimarySourceHasFirstElements ==
    /\ (MarketDataCompleted /\ Last(sources) = YAHOO) =>
          /\ Len(delta.data["financial_metrics"]) = 1
          /\ Len(delta.data["financial_line_items"]) = 1
    /\ \A op \in {"financial_metrics", "financial_line_items"} :
          (MarketDataCompleted /\ invoked[YAHOO][op] > 0) =>
              Len(delta.data[op]) = 1

\* the fundamentals stage fails on a missing first element exactly when the
\* market-data stage left an empty sequence
C23_IndexErrorOnlyOnEmptySequence ==
    (FundamentalsAborted /\ exc = IndexError) <=>
        /\ pc = "aborted" /\ Last(ran) = "fundamentals"
        /\ \/ state_data["financial_metrics"] = <<>>
           \/ state_data["financial_line_items"] = <<>>

C23_Witness_EmptyMetricsAborts ==
    /\ FundamentalsAborted /\ exc = IndexError
    /\ sources = <<FD>>
    /\ state_data["financial_metrics"] = <<>>
    /\ invoked[YAHOO]["financial_metrics"] = 0

C23_Witness_EmptyLineItemsAborts ==
    /\ FundamentalsAborted /\ exc = IndexError
    /\ sources = <<FD>>
    /\ state_data["financial_metrics"] # <<>>
    /\ state_data["financial_line_items"] = <<>>

----------------------------------------------------------------------------
(* Properties of the state object a stage receives *)

\* the state object is left as it was
StateKept ==
    /\ state_data' = state_data
    /\ state_messages' = state_messages
    /\ state_metadata' = state_metadata

\* C24: no stage modifies the state object it receives.  On every path
\* (success, stage-level fallback, failure) data, metadata and messages of
\* the state are changed by no step of a stage; they change only when the
\* returned value is merged into the state.
C24_StagesLeaveInputStateUnchanged ==
    [][pc # "merge" => StateKept]_vars

\* the one write of a stage to its input: the stage-level fallback of the
\* market-data stage sets data["data_source"] to the primary source
C24_OnlyStageFallbackWritesDataSource ==
    [][(pc # "merge" /\ ~StateKept) =>
          /\ pc = "md_except" /\ loc.data_source = FD
          /\ state_data' = SetItem(state_data, "data_source", YAHOO)
          /\ state_messages' = state_messages
          /\ state_metadata' = state_metadata]_vars

\* the input of the market-data stage named the secondary source; after the
\* stage-level fallback, and before anything was returned, it names the
\* primary one
C24_Witness_InputStateWritten ==
    /\ ran = <<"market_data">> /\ pc = "market_data" /\ depth = 1
    /\ sources = <<FD>>
    /\ state_data["data_source"] = YAHOO

----------------------------------------------------------------------------
(* Properties of the two layers of fallback together *)

\* the stage-level fallback has switched the source to the primary one
SourceSwitched ==
    /\ sources # <<>> /\ sources[1] = FD
    /\ Get(state_data, "data_source", YAHOO) = YAHOO

\* C25: across one invocation of the market-data stage, with the per-call
\* fallback and the stage-level fallback layered, each secondary adapter is
\* invoked at most once and each primary adapter at most twice; once the
\* stage-level fallback has switched the source to the primary one, no step
\* invokes a secondary adapter.
C25_AdapterInvocationsBounded ==
    [](\A op \in Ops : invoked[FD][op] <= 1 /\ invoked[YAHOO][op] <= 2)
        /\ [][SourceSwitched => invoked'[FD] = invoked[FD]]_vars

\* C25 witness: the stage ended on the second execution of its body; the
\* prices were asked of the secondary adapter once and of the primary adapter
\* twice, in the per-call fallback and after the switch
C25_Witness ==
    /\ depth = 2 /\ pc \in {"md_return", "aborted"}
    /\ SourceSwitched
    /\ invoked[FD]["prices"] = 1
    /\ invoked[YAHOO]["prices"] = 2

====
